---- MODULE Spec2Model ----
(***************************************************************************)
(* Model of lulwimi.py: main() and the seven pipeline stages it calls on   *)
(* the shared dictionary `data`.                                           *)
(*                                                                         *)
(* Strings are sequences of one-character strings, so that str.lower,      *)
(* str.isalpha, str.join, str.split and the os.path functions are computed *)
(* rather than assumed.  Python lists are sequences; Python index k is     *)
(* index k+1 here.  The libraries the program calls (nltk tokenizers,      *)
(* WordCloud, gensim) are modelled by what the program observes of them.   *)
(***************************************************************************)
EXTENDS Integers, Sequences, FiniteSets, TLC

VARIABLES
    args,         \* the parsed command line (input, stopwords, base, output_dir)
    dir_exists,   \* whether the output directory exists on disk
    data,         \* the dictionary `data` of main(): a function from key to value
    pc,           \* the statement of main() that runs next, or how main() ended
    exit_status,  \* exit status of the process, -1 while it runs
    raised,       \* the stage an exception escaped from ("" when none)
    trace,        \* the stages that returned, in order
    writes,       \* every file written under the output directory, in order
    inferred,     \* what ldamodel[corpus] yielded in identify_most_influencial_topic
    report        \* the HTML file as written by generate_html, NoReport until then

vars == <<args, dir_exists, data, pc, exit_status, raised, trace, writes, inferred, report>>

----------------------------------------------------------------------------
(* Bounds *)

\* Largest number of -i arguments explored.
MaxFiles == 2

----------------------------------------------------------------------------
(* Characters and Python string operations *)

Upper == {"T", "C"}
LowerCase == {"t", "h", "e", "c", "a", "d"}
Whitespace == {" ", "\n"}

\* str.lower() on one character
LowerChar(c) ==
    CASE c = "T" -> "t"
      [] c = "C" -> "c"
      [] OTHER   -> c

\* w.lower()
lower(w) == [i \in DOMAIN w |-> LowerChar(w[i])]

\* w.isalpha(): non-empty and every character is a letter
isalpha(w) == w # <<>> /\ \A i \in DOMAIN w : w[i] \in (Upper \cup LowerCase)

\* sep.join(parts)
RECURSIVE join(_, _)
join(sep, parts) ==
    IF parts = <<>> THEN <<>>
    ELSE IF Len(parts) = 1 THEN parts[1]
    ELSE parts[1] \o sep \o join(sep, Tail(parts))

\* s.split(): split on runs of whitespace, no empty strings.
\* cur is the word being collected, acc the words found so far.
RECURSIVE SplitFrom(_, _, _)
SplitFrom(s, cur, acc) ==
    IF s = <<>> THEN (IF cur = <<>> THEN acc ELSE Append(acc, cur))
    ELSE IF s[1] \in Whitespace
         THEN SplitFrom(Tail(s), <<>>, IF cur = <<>> THEN acc ELSE Append(acc, cur))
         ELSE SplitFrom(Tail(s), Append(cur, s[1]), acc)

split(s) == SplitFrom(s, <<>>, <<>>)

\* x in list
In(x, list) == \E i \in DOMAIN list : list[i] = x

\* d[k] = v on a dictionary
Set(d, k, v) == [x \in (DOMAIN d) \cup {k} |-> IF x = k THEN v ELSE d[x]]

----------------------------------------------------------------------------
(* nltk: word_tokenize and sent_tokenize, as far as the program uses them *)

\* word_tokenize(text): words are separated by whitespace, a full stop is a
\* token of its own.
RECURSIVE WordsFrom(_, _, _)
WordsFrom(s, cur, acc) ==
    LET flush == IF cur = <<>> THEN acc ELSE Append(acc, cur)
    IN  IF s = <<>> THEN flush
        ELSE IF s[1] \in Whitespace THEN WordsFrom(Tail(s), <<>>, flush)
        ELSE IF s[1] = "." THEN WordsFrom(Tail(s), <<>>, Append(flush, <<".">>))
        ELSE WordsFrom(Tail(s), Append(cur, s[1]), acc)

word_tokenize(text) == WordsFrom(text, <<>>, <<>>)

\* len(sent_tokenize(text)): a sentence ends at a full stop; text after the
\* last full stop is one more sentence; text without any token has none.
RECURSIVE CountSentences(_, _)
CountSentences(toks, open) ==
    IF toks = <<>> THEN (IF open THEN 1 ELSE 0)
    ELSE IF toks[1] = <<".">>
         THEN 1 + CountSentences(Tail(toks), FALSE)
         ELSE CountSentences(Tail(toks), TRUE)

sent_tokenize_len(text) == CountSentences(word_tokenize(text), FALSE)

----------------------------------------------------------------------------
(* The files on disk.  A path is a sequence of its components, separators  *)
(* and dots; a file is its list of lines, or unreadable.                   *)

The == <<"T", "h", "e">>
the == <<"t", "h", "e">>
cat == <<"c", "a", "t">>
Cat == <<"C", "a", "t">>
dad == <<"d", "a", "d">>
SP == <<" ">>
NL == <<"\n">>
DOT == <<".">>

P_a_ch1 == <<"a", "/", "ch1", ".", "txt">>
P_chapters_ch1 == <<"chapters", "/", "ch1", ".", "txt">>
P_b_ch2 == <<"b", "/", "ch2", ".", "txt">>
P_all == <<"all", ".", "txt">>
P_topic_cloud == <<"in", "/", "topic_cloud", ".", "txt">>
P_empty == <<"empty", ".", "txt">>
P_missing == <<"missing", ".", "txt">>

InputPaths ==
    {P_a_ch1, P_chapters_ch1, P_b_ch2, P_all, P_topic_cloud, P_empty, P_missing}

S_empty == <<"stop", "/", "none", ".", "txt">>
S_the == <<"stop", "/", "the", ".", "txt">>
S_mixed == <<"stop", "/", "mixed", ".", "txt">>
S_missing == <<"stop", "/", "missing", ".", "txt">>

\* args.stopwords when -s is not given (argparse default)
None == <<>>

StopwordArgs == {None, S_missing, S_empty, S_the, S_mixed}

Unreadable == [readable |-> FALSE, lines |-> <<>>]
File(lines) == [readable |-> TRUE, lines |-> lines]

\* open(path).readlines()
Disk(path) ==
    CASE path = P_a_ch1 -> File(<< The \o SP \o The \o SP \o cat \o DOT \o NL >>)
      [] path = P_chapters_ch1 -> File(<< The \o SP \o cat \o DOT \o NL, the \o SP \o dad \o NL >>)
      [] path = P_b_ch2 ->
            File(<< Cat \o SP \o <<"4", "2">> \o SP \o <<"c", "4", "t">> \o SP \o the \o DOT \o NL >>)
      [] path = P_all -> File(<< The \o DOT \o NL >>)
      [] path = P_topic_cloud -> File(<< The \o SP \o dad \o DOT >>)
      [] path = P_empty -> File(<<>>)
      [] path = S_empty -> File(<<>>)
      [] path = S_the -> File(<< the \o NL >>)
      [] path = S_mixed -> File(<< The \o SP \o cat \o NL, dad \o NL >>)
      [] OTHER -> Unreadable

----------------------------------------------------------------------------
(* os.path *)

Max(S) == CHOOSE x \in S : \A y \in S : y <= x

\* os.path.basename(path): what follows the last "/"
basename(path) ==
    LET seps == {i \in DOMAIN path : path[i] = "/"}
    IN  IF seps = {} THEN path ELSE SubSeq(path, Max(seps) + 1, Len(path))

\* os.path.splitext(name)[0]: what precedes the last ".", unless that dot
\* is preceded by dots only
splitext_root(name) ==
    LET dots == {i \in DOMAIN name : name[i] = "."}
    IN  IF dots = {} THEN name
        ELSE IF \E j \in 1..(Max(dots) - 1) : name[j] # "."
             THEN SubSeq(name, 1, Max(dots) - 1)
             ELSE name

----------------------------------------------------------------------------
(* State of main() *)

\* the calls of main() with the topic summary taken before the topic image
StagesSummaryFirst ==
    <<"read_texts", "identify_text_properties", "generate_wordcloud",
      "generate_lda", "identify_most_influencial_topic",
      "draw_topic_wordclouds", "generate_html">>

\* the calls of main(), in order
Stages == <<"read_texts", "identify_text_properties", "generate_wordcloud",
            "generate_lda", "draw_topic_wordclouds",
            "identify_most_influencial_topic", "generate_html">>

\* the statement of main() that follows the call of stage s
After(s) ==
    LET i == CHOOSE j \in DOMAIN Stages : Stages[j] = s
    IN  IF i = Len(Stages) THEN "done" ELSE Stages[i + 1]

InputLists == UNION {[1..n -> InputPaths] : n \in 1..MaxFiles}

NoReport == [title |-> <<>>, sections |-> <<>>, summary |-> <<>>, written |-> FALSE]

Init ==
    /\ args \in [input : InputLists,
                 stopwords : StopwordArgs,
                 base : {<<"report">>, <<"all">>},
                 output_dir : {<<"out">>}]
    /\ dir_exists \in BOOLEAN
    /\ data = <<>>
    /\ pc = "main"
    /\ exit_status = -1
    /\ raised = ""
    /\ trace = <<>>
    /\ writes = <<>>
    /\ inferred = <<>>
    /\ report = NoReport

\* sys.exit() with no argument: SystemExit(None), exit status 0
SysExit ==
    /\ pc' = "exited"
    /\ exit_status' = 0
    /\ UNCHANGED <<raised, trace>>

\* an exception that main() does not catch: traceback, exit status 1
Uncaught(stage) ==
    /\ pc' = "crashed"
    /\ exit_status' = 1
    /\ raised' = stage
    /\ UNCHANGED trace

\* the stage returned and main() goes on
Returned(stage) ==
    /\ pc' = After(stage)
    /\ exit_status' = IF After(stage) = "done" THEN 0 ELSE exit_status
    /\ trace' = Append(trace, stage)
    /\ UNCHANGED raised

----------------------------------------------------------------------------
(* main(), up to the call of read_texts *)

\* the try block around open(args.stopwords) raises
StopwordsFail ==
    /\ pc = "main"
    /\ ~Disk(args.stopwords).readable
    /\ SysExit
    /\ UNCHANGED <<args, dir_exists, data, writes, inferred, report>>

MainSetup ==
    /\ pc = "main"
    /\ Disk(args.stopwords).readable
    /\ LET stopwords == Disk(args.stopwords).lines
           d1 == Set(data, "stopwords", split(join(SP, stopwords)))
           d2 == Set(d1, "output_dir", args.output_dir)
           d3 == Set(d2, "base", args.base)
       IN  data' = Set(d3, "input", args.input)
    /\ dir_exists' = TRUE
    /\ pc' = "read_texts"
    /\ UNCHANGED <<args, exit_status, raised, trace, writes, inferred, report>>

----------------------------------------------------------------------------
(* read_texts *)

\* The loop of read_texts over the files not yet read; text is data["text"]
\* so far.  ok is FALSE when open() or readlines() raised.
RECURSIVE read_texts_loop(_, _)
read_texts_loop(rest, text) ==
    IF rest = <<>> THEN [ok |-> TRUE, text |-> text]
    ELSE IF ~Disk(rest[1]).readable THEN [ok |-> FALSE, text |-> text]
    ELSE LET file_text == join(SP, Disk(rest[1]).lines)
         IN  read_texts_loop(Tail(rest),
                             [Append(text, file_text) EXCEPT ![1] = @ \o file_text])

\* read_texts with a loop that passes over a file it cannot read
read_texts_skipping(input) ==
    LET readable == SelectSeq(input, LAMBDA f : Disk(f).readable)
    IN  read_texts_loop(readable, << <<>> >>)

read_texts(input) == read_texts_loop(input, << <<>> >>)

ReadTexts ==
    /\ pc = "read_texts"
    /\ LET r == read_texts(data["input"])
       IN  /\ r.ok
           /\ data' = Set(data, "text", r.text)
    /\ Returned("read_texts")
    /\ UNCHANGED <<args, dir_exists, writes, inferred, report>>

\* read_texts raised: main() logs and calls sys.exit()
ReadTextsFail ==
    /\ pc = "read_texts"
    /\ LET r == read_texts(data["input"])
       IN  /\ ~r.ok
           /\ data' = Set(data, "text", r.text)
    /\ SysExit
    /\ UNCHANGED <<args, dir_exists, writes, inferred, report>>

----------------------------------------------------------------------------
(* identify_text_properties *)

RECURSIVE gcd(_, _)
gcd(a, b) == IF b = 0 THEN a ELSE gcd(b, a % b)

\* the quotient with 0 standing in when there is no sentence
GuardedDiv(tokens, sentences) ==
    IF sentences = 0 THEN <<0, 1>>
    ELSE LET g == gcd(tokens, sentences) IN <<tokens \div g, sentences \div g>>

\* number_of_tokens / number_of_sentences for number_of_sentences > 0: the
\* quotient, kept exact as <<numerator, denominator>> in lowest terms
TrueDiv(tokens, sentences) ==
    LET g == gcd(tokens, sentences)
    IN  IF g = 0 THEN <<0, 1>> ELSE <<tokens \div g, sentences \div g>>

\* clean with the stopwords taken out before the tokens are lowercased
clean_before_lower(tokenized_text, stopwords) ==
    LET alpha == SelectSeq(tokenized_text, isalpha)
        kept == SelectSeq(alpha, LAMBDA w : ~In(w, stopwords))
    IN  join(SP, [i \in DOMAIN kept |-> lower(kept[i])])

\* the two list comprehensions that clean a token list, and the join
clean(tokenized_text, stopwords) ==
    LET alpha == SelectSeq(tokenized_text, isalpha)
        lowered == [i \in DOMAIN alpha |-> lower(alpha[i])]
        kept == SelectSeq(lowered, LAMBDA w : ~In(w, stopwords))
    IN  join(SP, kept)

\* properties_loop with the division guarded: no entry raises
RECURSIVE properties_loop_guarded(_, _, _)
properties_loop_guarded(texts, stopwords, acc) ==
    IF texts = <<>> THEN acc
    ELSE LET tokenized_text == word_tokenize(texts[1])
         IN  properties_loop_guarded(Tail(texts), stopwords,
                 [ok |-> TRUE,
                  ns |-> Append(acc.ns, sent_tokenize_len(texts[1])),
                  nt |-> Append(acc.nt, Len(tokenized_text)),
                  tps |-> Append(acc.tps, GuardedDiv(Len(tokenized_text),
                                                     sent_tokenize_len(texts[1]))),
                  tt |-> Append(acc.tt, clean(tokenized_text, stopwords))])

\* The loop of identify_text_properties over the texts not yet seen; acc
\* holds the four lists so far.  ok is FALSE when the division raised
\* ZeroDivisionError, which happens after the two counts were appended.
RECURSIVE properties_loop(_, _, _)
properties_loop(texts, stopwords, acc) ==
    IF texts = <<>> THEN acc
    ELSE LET text == texts[1]
             ns == Append(acc.ns, sent_tokenize_len(text))
             tokenized_text == word_tokenize(text)
             nt == Append(acc.nt, Len(tokenized_text))
         IN  IF ns[Len(ns)] = 0
             THEN [acc EXCEPT !.ok = FALSE, !.ns = ns, !.nt = nt]
             ELSE properties_loop(Tail(texts), stopwords,
                     [ok |-> TRUE, ns |-> ns, nt |-> nt,
                      tps |-> Append(acc.tps, TrueDiv(nt[Len(nt)], ns[Len(ns)])),
                      tt |-> Append(acc.tt, clean(tokenized_text, stopwords))])

identify_text_properties(d) ==
    LET r == properties_loop(d["text"], d["stopwords"],
                             [ok |-> TRUE, ns |-> <<>>, nt |-> <<>>, tps |-> <<>>, tt |-> <<>>])
        d1 == Set(d, "number of sentences", r.ns)
        d2 == Set(d1, "number of tokens", r.nt)
        d3 == Set(d2, "tokens per sentence", r.tps)
    IN  [ok |-> r.ok, data |-> Set(d3, "tokenized_text", r.tt)]

IdentifyTextProperties ==
    /\ pc = "identify_text_properties"
    /\ LET r == identify_text_properties(data)
       IN  /\ r.ok
           /\ data' = r.data
    /\ Returned("identify_text_properties")
    /\ UNCHANGED <<args, dir_exists, writes, inferred, report>>

IdentifyTextPropertiesRaises ==
    /\ pc = "identify_text_properties"
    /\ LET r == identify_text_properties(data)
       IN  /\ ~r.ok
           /\ data' = r.data
    /\ Uncaught("identify_text_properties")
    /\ UNCHANGED <<args, dir_exists, writes, inferred, report>>

----------------------------------------------------------------------------
(* generate_wordcloud *)

PNG == <<".", "png">>

\* data["bases"][-1] for the value counter of the loop (counter = k - 1)
base_of(d, k) ==
    IF k = 1 THEN <<"all">> ELSE splitext_root(basename(d["input"][k - 1]))

\* the path handed to savefig / open
out_path(d, name) == d["output_dir"] \o <<"/">> \o name

\* generate_wordcloud when wc.generate raises in iteration fail (0: never).
\* An iteration appends to bases, renders, appends to wordcloud and saves.
generate_wordcloud(d, fail) ==
    LET n == Len(d["tokenized_text"])
        nb == IF fail = 0 THEN n ELSE fail
        nw == IF fail = 0 THEN n ELSE fail - 1
        bases == [k \in 1..nb |-> base_of(d, k)]
        wordcloud == [k \in 1..nw |-> bases[k] \o PNG]
    IN  [data |-> Set(Set(d, "wordcloud", wordcloud), "bases", bases),
         saved |-> [k \in 1..nw |->
                      [path |-> out_path(d, wordcloud[k]), stage |-> "generate_wordcloud"]]]

\* WordCloud.generate raises ValueError on a text without words; which other
\* texts it rejects is the library's business, so any iteration may raise.
MayFailAt(d, fail) ==
    LET tt == d["tokenized_text"]
    IN  /\ fail \in 0..Len(tt)
        /\ \A k \in 1..Len(tt) : (fail = 0 \/ k < fail) => tt[k] # <<>>

GenerateWordcloud ==
    /\ pc = "generate_wordcloud"
    /\ MayFailAt(data, 0)
    /\ LET r == generate_wordcloud(data, 0)
       IN  /\ data' = r.data
           /\ writes' = writes \o r.saved
    /\ Returned("generate_wordcloud")
    /\ UNCHANGED <<args, dir_exists, inferred, report>>

GenerateWordcloudRaises ==
    /\ pc = "generate_wordcloud"
    /\ \E fail \in 1..Len(data["tokenized_text"]) :
          /\ MayFailAt(data, fail)
          /\ LET r == generate_wordcloud(data, fail)
             IN  /\ data' = r.data
                 /\ writes' = writes \o r.saved
    /\ Uncaught("generate_wordcloud")
    /\ UNCHANGED <<args, dir_exists, inferred, report>>

----------------------------------------------------------------------------
(* generate_lda *)

num_topics == 10

Range(s) == {s[i] : i \in DOMAIN s}

\* id2word.doc2bow(text): how often each token occurs
doc2bow(text) ==
    [w \in Range(text) |-> Cardinality({i \in DOMAIN text : text[i] = w})]

generate_lda(d) ==
    LET split_texts == [k \in DOMAIN d["tokenized_text"] |-> split(d["tokenized_text"][k])]
        id2word == UNION {Range(split_texts[k]) : k \in DOMAIN split_texts}
        corpus == [k \in DOMAIN split_texts |-> doc2bow(split_texts[k])]
        d1 == Set(d, "split_texts", split_texts)
        d2 == Set(d1, "id2word", id2word)
        d3 == Set(d2, "corpus", corpus)
    IN  Set(d3, "lda_model", [num_topics |-> num_topics, per_word_topics |-> TRUE])

GenerateLda ==
    /\ pc = "generate_lda"
    /\ data' = generate_lda(data)
    /\ Returned("generate_lda")
    /\ UNCHANGED <<args, dir_exists, writes, inferred, report>>

----------------------------------------------------------------------------
(* draw_topic_wordclouds *)

draw_topic_wordclouds(d) == Set(d, "topic_cloud", <<"topic_cloud">> \o PNG)

DrawTopicWordclouds ==
    /\ pc = "draw_topic_wordclouds"
    /\ data' = draw_topic_wordclouds(data)
    /\ writes' = Append(writes, [path |-> out_path(data', data'["topic_cloud"]),
                                 stage |-> "draw_topic_wordclouds"])
    /\ Returned("draw_topic_wordclouds")
    /\ UNCHANGED <<args, dir_exists, inferred, report>>

----------------------------------------------------------------------------
(* identify_most_influencial_topic *)

\* Probabilities are integers in units of 0.00001.
\* What ldamodel[corpus] may yield for one document: a list of
\* (topic_num, prop_topic) in the order the model returns them.
TopicRows ==
    { <<>>,
      << <<3, 50000>>, <<7, 50000>> >>,
      << <<4, 10010>>, <<6, 44995>>, <<5, 44995>> >> }

\* ldamodel.show_topic(topic_num): (word, weight) pairs of the topic
show_topic(topic_num) ==
    IF topic_num % 2 = 0
    THEN << <<cat, 60000>>, <<dad, 40000>> >>
    ELSE << <<the, 100000>> >>

\* round(prop_topic, 4), in units of 0.0001; halves go to the even neighbour
round4(prop) ==
    LET q == prop \div 10
        r == prop % 10
    IN  IF r > 5 \/ (r = 5 /\ q % 2 = 1) THEN q + 1 ELSE q

\* x put into the list s, which is in descending order of x[2], behind every
\* element that is not smaller
insert_desc(x, s) ==
    LET ahead == {i \in DOMAIN s : s[i][2] >= x[2]}
        n == Cardinality(ahead)
    IN  SubSeq(s, 1, n) \o <<x>> \o SubSeq(s, n + 1, Len(s))

\* a descending sort that puts an element ahead of its equals
RECURSIVE sorted_desc_unstable(_)
sorted_desc_unstable(row) ==
    IF row = <<>> THEN <<>>
    ELSE LET x == row[Len(row)]
             s == sorted_desc_unstable(SubSeq(row, 1, Len(row) - 1))
             n == Cardinality({i \in DOMAIN s : s[i][2] > x[2]})
         IN  SubSeq(s, 1, n) \o <<x>> \o SubSeq(s, n + 1, Len(s))

\* sorted(row, key = lambda x: x[1], reverse = True): descending and stable
RECURSIVE sorted_desc(_)
sorted_desc(row) ==
    IF row = <<>> THEN <<>>
    ELSE insert_desc(row[Len(row)], sorted_desc(SubSeq(row, 1, Len(row) - 1)))

\* what one iteration of the outer loop appends to data["topic_doc"]
dominant(row_list, per_word_topics) ==
    LET row0 == IF per_word_topics THEN row_list[1] ELSE row_list
        row == sorted_desc(row0)
    IN  IF row = <<>> THEN <<>>
        ELSE LET topic_num == row[1][1]
                 prop_topic == row[1][2]
                 wp == show_topic(topic_num)
                 topic_keywords == join(<<",", " ">>, [i \in DOMAIN wp |-> wp[i][1]])
             IN  << <<topic_num, round4(prop_topic), topic_keywords>> >>

RECURSIVE topic_doc_of(_, _)
topic_doc_of(rows, per_word_topics) ==
    IF rows = <<>> THEN <<>>
    ELSE dominant(rows[1], per_word_topics) \o topic_doc_of(Tail(rows), per_word_topics)

IdentifyMostInfluencialTopic ==
    /\ pc = "identify_most_influencial_topic"
    /\ \E rows \in [DOMAIN data["corpus"] -> TopicRows] :
          /\ inferred' = [k \in DOMAIN rows |-> <<rows[k], <<>>, <<>>>>]
          /\ data' = Set(data, "topic_doc",
                         topic_doc_of(inferred', data["lda_model"].per_word_topics))
    /\ Returned("identify_most_influencial_topic")
    /\ UNCHANGED <<args, dir_exists, writes, report>>

----------------------------------------------------------------------------
(* generate_html *)

StatKeys == <<"number of sentences", "number of tokens", "tokens per sentence">>

\* what generate_html_part adds to the document for one part (part = k - 1)
generate_html_part(d, k) ==
    [h1 |-> d["bases"][k],
     ul |-> [i \in DOMAIN StatKeys |-> [label |-> StatKeys[i], value |-> d[StatKeys[i]][k]]],
     img |-> d["wordcloud"][k],
     th |-> <<"topic", "percentage", "words">>,
     td |-> [i \in 1..Len(d["topic_doc"][k]) |-> d["topic_doc"][k][i]]]

\* generate_html_part raises IndexError for the first part that one of the
\* lists it indexes does not have
part_raises(d, k) ==
    \/ \E i \in DOMAIN StatKeys : k > Len(d[StatKeys[i]])
    \/ k > Len(d["wordcloud"])
    \/ k > Len(d["topic_doc"])

\* generate_html with the loop running over the input files only
generate_html_per_input(d) ==
    LET parts == 1..Len(d["input"])
    IN  IF \E k \in parts : part_raises(d, k)
        THEN [ok |-> FALSE, doc |-> NoReport, path |-> <<>>]
        ELSE [ok |-> TRUE,
              doc |-> [title |-> d["base"],
                       sections |-> [k \in parts |-> generate_html_part(d, k)],
                       summary |-> << [cls |-> "topic_cloud", img |-> d["topic_cloud"]] >>,
                       written |-> TRUE],
              path |-> d["output_dir"] \o <<"/">> \o d["base"] \o <<".", "html">>]

\* ok is FALSE when a part raised: nothing is written then
generate_html(d) ==
    LET parts == 1..Len(d["bases"])
    IN  IF \E k \in parts : part_raises(d, k)
        THEN [ok |-> FALSE, doc |-> NoReport, path |-> <<>>]
        ELSE [ok |-> TRUE,
              doc |-> [title |-> d["base"],
                       sections |-> [k \in parts |-> generate_html_part(d, k)],
                       summary |-> << [cls |-> "topic_cloud", img |-> d["topic_cloud"]] >>,
                       written |-> TRUE],
              path |-> d["output_dir"] \o <<"/">> \o d["base"] \o <<".", "html">>]

GenerateHtml ==
    /\ pc = "generate_html"
    /\ generate_html(data).ok
    /\ report' = generate_html(data).doc
    /\ writes' = Append(writes, [path |-> generate_html(data).path, stage |-> "generate_html"])
    /\ Returned("generate_html")
    /\ UNCHANGED <<args, dir_exists, data, inferred>>

GenerateHtmlRaises ==
    /\ pc = "generate_html"
    /\ ~generate_html(data).ok
    /\ Uncaught("generate_html")
    /\ UNCHANGED <<args, dir_exists, data, writes, inferred, report>>

----------------------------------------------------------------------------

Next ==
    \/ StopwordsFail
    \/ MainSetup
    \/ ReadTexts
    \/ ReadTextsFail
    \/ IdentifyTextProperties
    \/ IdentifyTextPropertiesRaises
    \/ GenerateWordcloud
    \/ GenerateWordcloudRaises
    \/ GenerateLda
    \/ DrawTopicWordclouds
    \/ IdentifyMostInfluencialTopic
    \/ GenerateHtml
    \/ GenerateHtmlRaises

Spec == Init /\ [][Next]_vars

----------------------------------------------------------------------------
(* Properties *)

N == Len(args.input)
HasRun(stage) == \E i \in DOMAIN trace : trace[i] = stage
SomeInputUnreadable == \E i \in DOMAIN args.input : ~Disk(args.input[i]).readable
PerEntryKeys ==
    {"text", "number of sentences", "number of tokens", "tokens per sentence",
     "tokenized_text", "bases", "wordcloud", "topic_doc"}

\* C1: whenever main() reaches the call of generate_html, the eight
\* per-entry lists of data all have one element per corpus entry, N + 1,
\* whatever topic distributions the model returned (an empty one included).
C1_ListsAligned ==
    pc = "generate_html" =>
        \A key \in PerEntryKeys : key \in DOMAIN data /\ Len(data[key]) = N + 1

\* C2: when the stopword file (or a missing -s) or any input file cannot be
\* read, main() never gets past read_texts: no stage returns, no exception
\* escapes, nothing of identify_text_properties is computed, and no PNG and
\* no HTML file is written.
C2_ReadFailureAborts ==
    (~Disk(args.stopwords).readable \/ SomeInputUnreadable) =>
        /\ pc \in {"main", "read_texts", "exited"}
        /\ trace = <<>>
        /\ raised = ""
        /\ writes = <<>>
        /\ ~report.written
        /\ "number of sentences" \notin DOMAIN data

\* C2 witness: the run was aborted at the second input file after the first
\* one had been read.
C2_Witness ==
    /\ pc = "exited"
    /\ N = 2
    /\ Disk(args.input[1]).readable
    /\ ~Disk(args.input[2]).readable
    /\ "text" \in DOMAIN data
    /\ Len(data["text"]) = 2
    /\ data["text"][2] # <<>>

\* C3: a run that main() aborts because the stopword file or an input file
\* is unreadable ends with a non-zero exit status.
C3_AbortExitsNonZero == pc = "exited" => exit_status # 0

\* the paths generate_wordcloud saved to
WordcloudFiles ==
    {writes[i].path : i \in {j \in DOMAIN writes : writes[j].stage = "generate_wordcloud"}}

\* C4: once generate_wordcloud has returned, it has written N + 1 distinct
\* PNG files, and the one for chapters/ch1.txt is named ch1.png.
C4_OnePngPerEntry ==
    HasRun("generate_wordcloud") =>
        /\ Cardinality(WordcloudFiles) = N + 1
        /\ \A i \in DOMAIN args.input :
              args.input[i] = P_chapters_ch1 =>
                  data["wordcloud"][i + 1] = <<"ch1", ".", "png">>

\* C5: no path under the output directory is written twice in one run.
C5_WriteOnce ==
    \A i, j \in DOMAIN writes : i # j => writes[i].path # writes[j].path

\* the tokens of words that are alphabetic and, lowercased, no stopword
ExpectedTokens(words, stopwords) ==
    LET kept == SelectSeq(words, LAMBDA w : isalpha(w) /\ ~In(lower(w), stopwords))
    IN  [i \in DOMAIN kept |-> lower(kept[i])]

ZeroSentenceEntries ==
    {k \in DOMAIN data["text"] : sent_tokenize_len(data["text"][k]) = 0}

\* C7: every tokens-per-sentence value recorded is the token count over a
\* positive sentence count; when an entry has no sentence the run fails in
\* identify_text_properties at the first such entry, with no value recorded
\* for it, no later stage run and no file written.
C7_TokensPerSentence ==
    "tokens per sentence" \in DOMAIN data =>
        LET tps == data["tokens per sentence"]
            ns == data["number of sentences"]
            nt == data["number of tokens"]
        IN  /\ \A k \in DOMAIN tps :
                  /\ ns[k] > 0
                  /\ tps[k][2] > 0
                  /\ tps[k][1] * ns[k] = nt[k] * tps[k][2]
            /\ ZeroSentenceEntries = {} => Len(tps) = N + 1
            /\ ZeroSentenceEntries # {} =>
                  LET first == CHOOSE k \in ZeroSentenceEntries :
                                   \A j \in ZeroSentenceEntries : k <= j
                  IN  /\ pc = "crashed"
                      /\ raised = "identify_text_properties"
                      /\ exit_status # 0
                      /\ Len(tps) = first - 1
                      /\ Len(ns) = first
                      /\ ns[first] = 0
                      /\ trace = <<"read_texts">>
                      /\ writes = <<>>
                      /\ ~report.written

\* C7 witness: the aggregate and the first part (chapters/ch1.txt, 5 tokens
\* in 2 sentences) got their values and a second part without a sentence
\* ended the run.
C7_Witness ==
    /\ pc = "crashed"
    /\ raised = "identify_text_properties"
    /\ Len(data["tokens per sentence"]) = 2
    /\ data["tokens per sentence"][2][2] = 2
    /\ Len(data["number of sentences"]) = 3
    /\ data["number of sentences"][3] = 0

\* the documents whose topic list is not empty, and how many of them come
\* up to document k
Topical == {k \in DOMAIN inferred : inferred[k][1] # <<>>}
Rank(k) == Cardinality({j \in Topical : j <= k})

\* C8: for every entry with a non-empty topic list exactly one triple is
\* recorded, in entry order: the first topic of the list that has the
\* maximum probability, that probability rounded to 4 decimals, and the
\* keywords of the topic joined by ", ".
C8_DominantTopic ==
    "topic_doc" \in DOMAIN data =>
        /\ Len(data["topic_doc"]) = Cardinality(Topical)
        /\ \A k \in Topical :
              LET row == inferred[k][1]
                  triple == data["topic_doc"][Rank(k)]
                  wp == show_topic(triple[1])
              IN  /\ Len(triple) = 3
                  /\ \E i \in DOMAIN row :
                        /\ row[i][1] = triple[1]
                        /\ \A j \in DOMAIN row : row[j][2] <= row[i][2]
                        /\ \A j \in 1..(i - 1) : row[j][2] < row[i][2]
                        /\ triple[2] * 10 - row[i][2] \in -5..5
                  /\ triple[3] = join(<<",", " ">>, [i \in DOMAIN wp |-> wp[i][1]])

\* C8 witness: a document whose two best topics, 6 then 5, are equally
\* probable got topic 6, and one whose only topics 3 and 7 tie got topic 3.
C8_Witness ==
    /\ "topic_doc" \in DOMAIN data
    /\ Len(inferred) = 3
    /\ inferred[1][1] = << <<4, 10010>>, <<6, 44995>>, <<5, 44995>> >>
    /\ inferred[2][1] = <<>>
    /\ inferred[3][1] = << <<3, 50000>>, <<7, 50000>> >>
    /\ data["topic_doc"][1][1] = 6
    /\ data["topic_doc"][1][2] = 4500
    /\ data["topic_doc"][2][1] = 3

\* C9: the HTML file, once written, has N + 1 sections in corpus order
\* ("all", then the input files), each with its heading, its three stat
\* lines, the image that generate_wordcloud saved for the same index and a
\* data row of three cells, then one summary naming topic_cloud.png; and it
\* is the last file written, after the N + 1 word clouds and the topic cloud.
C9_ReportStructure ==
    /\ report.written =>
          /\ Len(report.sections) = N + 1
          /\ \A k \in DOMAIN report.sections :
                LET sec == report.sections[k]
                IN  /\ sec.h1 = (IF k = 1 THEN <<"all">>
                                 ELSE splitext_root(basename(args.input[k - 1])))
                    /\ Len(sec.ul) = 3
                    /\ \A i \in 1..3 :
                          /\ sec.ul[i].label = StatKeys[i]
                          /\ sec.ul[i].value = data[StatKeys[i]][k]
                    /\ writes[k].stage = "generate_wordcloud"
                    /\ writes[k].path = args.output_dir \o <<"/">> \o sec.img
                    /\ Len(sec.td) = 3
                    /\ sec.td = data["topic_doc"][k]
          /\ Len(report.summary) = 1
          /\ report.summary[1].img = <<"topic_cloud", ".", "png">>
    /\ \A i \in DOMAIN writes :
          writes[i].stage = "generate_html" =>
              /\ report.written
              /\ i = N + 3
              /\ Len(writes) = N + 3
              /\ writes[N + 2].stage = "draw_topic_wordclouds"
              /\ \A j \in 1..(N + 1) : writes[j].stage = "generate_wordcloud"

\* C9 witness: a report on two input files was written.
C9_Witness ==
    /\ pc = "done"
    /\ report.written
    /\ N = 2
    /\ Len(report.sections) = 3
    /\ report.sections[2].h1 # report.sections[3].h1

\* the order of the stages as the claim C10 states it
ClaimedOrder ==
    <<"read_texts", "identify_text_properties", "generate_wordcloud",
      "generate_lda", "draw_topic_wordclouds",
      "identify_most_influencial_topic", "generate_html">>

\* the keys of data that a stage reads
Reads(stage) ==
    CASE stage = "read_texts" -> {"input"}
      [] stage = "identify_text_properties" -> {"text", "stopwords"}
      [] stage = "generate_wordcloud" -> {"tokenized_text", "input", "output_dir"}
      [] stage = "generate_lda" -> {"tokenized_text"}
      [] stage = "draw_topic_wordclouds" -> {"lda_model", "output_dir"}
      [] stage = "identify_most_influencial_topic" -> {"lda_model", "corpus"}
      [] stage = "generate_html" ->
            {"base", "bases", "number of sentences", "number of tokens",
             "tokens per sentence", "wordcloud", "topic_doc", "topic_cloud",
             "output_dir"}
      [] OTHER -> {}

\* the keys of data that a stage writes
Writes(stage) ==
    CASE stage = "read_texts" -> {"text"}
      [] stage = "identify_text_properties" ->
            {"number of sentences", "number of tokens", "tokens per sentence",
             "tokenized_text"}
      [] stage = "generate_wordcloud" -> {"wordcloud", "bases"}
      [] stage = "generate_lda" -> {"split_texts", "id2word", "corpus", "lda_model"}
      [] stage = "draw_topic_wordclouds" -> {"topic_cloud"}
      [] stage = "identify_most_influencial_topic" -> {"topic_doc"}
      [] OTHER -> {}

MainKeys == {"stopwords", "output_dir", "base", "input"}

C10_Order ==
    /\ Len(trace) <= Len(ClaimedOrder)
    /\ trace = SubSeq(ClaimedOrder, 1, Len(trace))
    /\ pc \in Range(ClaimedOrder) => pc = ClaimedOrder[Len(trace) + 1]
    /\ pc = "done" => trace = ClaimedOrder
    /\ pc \in Range(ClaimedOrder) => Reads(pc) \subseteq DOMAIN data
    /\ \A i \in DOMAIN trace : Writes(trace[i]) \subseteq DOMAIN data
    /\ pc \in Range(ClaimedOrder) => Writes(pc) \cap DOMAIN data = {}

C10_Frame ==
    /\ \A key \in DOMAIN data : key \in DOMAIN data' /\ data'[key] = data[key]
    /\ \A key \in (DOMAIN data') \ (DOMAIN data) :
          \/ pc = "main" /\ key \in MainKeys
          \/ key \in Writes(pc)

\* C10: the stages return in the order read_texts, identify_text_properties,
\* generate_wordcloud, generate_lda, draw_topic_wordclouds,
\* identify_most_influencial_topic, generate_html; a stage starts only when
\* the keys it reads are there and none of its own are; every key is set in
\* the one step of the stage that owns it and never changes afterwards.
C10_StagedRecord == [](C10_Order) /\ [][C10_Frame]_vars

\* C10 witness: all seven stages returned.
C10_Witness == pc = "done" /\ Len(trace) = 7 /\ exit_status = 0

====
